---- MODULE Spec2Model ----
(***************************************************************************)
(* Model of the Docker Registry HTTP API v2 client (src/src/v2/mod.rs):    *)
(* the Client's request signing (new_request), the login handshake         *)
(* (probe, WWW-Authenticate parsing, token URL, token exchange) and the    *)
(* read operations is_v2_supported, is_auth and get_catalog.               *)
(*                                                                         *)
(* Text is a sequence of one-character strings, so that the string         *)
(* operations of the code (trim_left_matches, split, trim_matches,         *)
(* concatenation) are computed on characters as the code computes them.    *)
(***************************************************************************)
EXTENDS Naturals, Sequences, FiniteSets, TLC

VARIABLES
    credentials,   \* Client.credentials : Option<(String, String)>
    user_agent,    \* Client.user_agent  : Option<String>
    token,         \* Client.token       : Option<String>
    pc,            \* where the caller's thread is: "idle", inside login
                   \* waiting for the probe ("probe") or for the token
                   \* response ("token"), or "panicked" after an unwrap()
    login,         \* the login call in progress or just returned: its
                   \* argument, the responses it received, its locals,
                   \* the requests it sent and its return value (NoLogin
                   \* once the caller has moved on to another operation)
    calls,         \* unresolved futures of is_v2_supported, is_auth and
                   \* get_catalog, each with the requests it has sent
    lastOut,       \* the future resolved last: its operation, the
                   \* response it received, the requests it sent, its value
    manifest,      \* the get_manifest call: its request, the response it
                   \* received, and what it resolved to
    session        \* the blob upload session and the chunk PATCH in
                   \* progress on it

vars == <<credentials, user_agent, token, pc, login, calls, lastOut, manifest,
          session>>

----------------------------------------------------------------------------
(* Bound of the model *)

MaxCalls == 1      \* futures of read operations unresolved at the same time
MaxReads == 2      \* the same, for the client that only reads
MaxBlob == 3       \* bytes of the blob that is uploaded
MaxChunk == 2      \* bytes of the longest chunk

----------------------------------------------------------------------------
(* Option<T> *)

None == <<>>
Some(x) == <<x>>

----------------------------------------------------------------------------
(* Text *)

S_Bearer == <<"B", "e", "a", "r", "e", "r", " ">>
S_realm == <<"r", "e", "a", "l", "m">>
S_service == <<"s", "e", "r", "v", "i", "c", "e">>
S_scope == <<"s", "c", "o", "p", "e">>
S_error == <<"e", "r", "r", "o", "r">>
S_v2 == <<"/", "v", "2", "/">>
S_catalog == <<"/", "v", "2", "/", "_", "c", "a", "t", "a", "l", "o", "g">>
S_qn == <<"?", "n", "=">>
S_qservice == <<"?">> \o S_service \o <<"=">>
S_ascope == <<"&">> \o S_scope \o <<"=">>
S_sep == <<":", "/", "/">>

StartsWith(s, p) == Len(s) >= Len(p) /\ SubSeq(s, 1, Len(p)) = p

Contains(s, p) ==
    \E i \in 1..(Len(s) + 1 - Len(p)) : SubSeq(s, i, i + Len(p) - 1) = p

IndexOf(s, p) ==
    CHOOSE i \in 1..(Len(s) + 1 - Len(p)) :
        /\ SubSeq(s, i, i + Len(p) - 1) = p
        /\ \A j \in 1..(i - 1) : SubSeq(s, j, j + Len(p) - 1) # p

Drop(s, n) == SubSeq(s, n + 1, Len(s))

\* str::trim_left_matches(pat): removes every repetition of the prefix pat
RECURSIVE trim_left_matches(_, _)
trim_left_matches(s, p) ==
    IF p # <<>> /\ StartsWith(s, p) THEN trim_left_matches(Drop(s, Len(p)), p)
    ELSE s

RECURSIVE trim_right_char(_, _)
trim_right_char(s, c) ==
    IF s # <<>> /\ s[Len(s)] = c THEN trim_right_char(SubSeq(s, 1, Len(s) - 1), c)
    ELSE s

\* str::trim_matches(c): removes every leading and every trailing c
trim_matches(s, c) == trim_right_char(trim_left_matches(s, <<c>>), c)

\* str::split(c): the pieces between the occurrences of c; one piece, the
\* empty one, for the empty string
RECURSIVE split(_, _)
split(s, c) ==
    IF Contains(s, <<c>>)
    THEN LET i == IndexOf(s, <<c>>)
         IN <<SubSeq(s, 1, i - 1)>> \o split(Drop(s, i), c)
    ELSE <<s>>

RECURSIVE DecStr(_)
DecStr(n) ==
    LET d == <<"0", "1", "2", "3", "4", "5", "6", "7", "8", "9">>
    IN IF n < 10 THEN <<d[n + 1]>> ELSE DecStr(n \div 10) \o <<d[(n % 10) + 1]>>

----------------------------------------------------------------------------
(* The registry side: what the caller passes and what the servers answer *)

BaseUrl == <<"h", ":", "/", "/", "r">>

R_plain == <<"h", ":", "/", "/", "a", "/", "t">>
R_eq == R_plain \o <<"?", "k", "=", "v">>
Sv_plain == <<"s">>
Sv_comma == <<"s", ",", "b">>
Sc_x == <<"x">>
Sc_y == <<"y">>
Quote == "\""

Tokens == {"t1", "t2"}

\* scope lists a caller passes to login: none, two in an order that is not
\* the sorted one, the same scope twice
ScopeLists == {<<>>, <<Sc_y, Sc_x>>, <<Sc_x, Sc_x>>}

\* AuthChallenge values a registry sends (spec 3: realm, optional service,
\* one or more scopes)
Challenges ==
    [realm : {R_plain, R_eq},
     service : {None, Some(Sv_plain), Some(Sv_comma)},
     scope : {<<Sc_x>>, <<Sc_y, Sc_x>>}]

Quoted(key, v) == key \o <<"=", Quote>> \o v \o <<Quote>>

RECURSIVE FormatScopes(_)
FormatScopes(scs) ==
    IF scs = <<>> THEN <<>>
    ELSE <<",">> \o Quoted(S_scope, Head(scs)) \o FormatScopes(Tail(scs))

\* the header value of a challenge:
\* Bearer realm="...",service="...",scope="..."[,scope="..."]*
FormatChallenge(c) ==
    S_Bearer \o Quoted(S_realm, c.realm)
        \o (IF c.service = None THEN <<>>
            ELSE <<",">> \o Quoted(S_service, c.service[1]))
        \o FormatScopes(c.scope)

H_norealm == S_Bearer \o Quoted(S_service, Sv_plain)
H_unknown == S_Bearer \o Quoted(S_realm, R_plain) \o <<",">> \o Quoted(S_error, <<"e">>)
H_scopeonly == S_Bearer \o Quoted(S_scope, Sc_x)

Raw(text) == [utf8 |-> TRUE, text |-> text]
RawInvalid == [utf8 |-> FALSE, text |-> <<>>]

\* the WWW-Authenticate lines of a probe response: none, one, or two
WwwHeaders ==
    {<<>>}
        \cup { <<Raw(FormatChallenge(c))>> : c \in Challenges }
        \cup { <<Raw(H_norealm)>>, <<Raw(H_scopeonly)>>, <<Raw(H_unknown)>>,
               <<RawInvalid>> }
        \cup { <<Raw(H_unknown), Raw(H_unknown)>> }

TransportError == [kind |-> "transport", status |-> 0, www |-> <<>>]

\* Every header with a 401; with a 200 and with a 404, no header, one
\* challenge and two lines
ProbeResponses ==
    {TransportError}
        \cup [kind : {"http"}, status : {401}, www : WwwHeaders]
        \cup [kind : {"http"}, status : {200, 404},
              www : { <<>>,
                      <<Raw(FormatChallenge([realm |-> R_plain, service |-> Some(Sv_plain),
                                             scope |-> <<Sc_x>>]))>>,
                      <<Raw(H_unknown), Raw(H_unknown)>> }]

Body(enc, tok) == [enc |-> enc, token |-> tok]

TokenBodies ==
    { Body("notutf8", None), Body("notjson", None), Body("json", None) }
        \cup { Body("json", Some(t)) : t \in Tokens }

TokenTransportError == [kind |-> "transport", status |-> 0, body |-> Body("notjson", None)]

TokenResponses ==
    {TokenTransportError}
        \cup [kind : {"http"}, status : {200}, body : TokenBodies]
        \cup [kind : {"http"}, status : {401, 500}, body : {Body("notjson", None)}]

----------------------------------------------------------------------------
(* Client: request signing *)

NoAuth == <<>>
Bearer(t) == <<"Bearer", t>>
Basic(u, p) == <<"Basic", u, p>>

\* new_request falling back to the Basic credentials while no token is held
new_request_basic(method, url) ==
    [method |-> method,
     url |-> url,
     auth |-> IF token # None THEN Bearer(token[1])
              ELSE IF credentials # None
              THEN Basic(credentials[1][1], credentials[1][2])
              ELSE NoAuth,
     ua |-> IF user_agent # None THEN Some(user_agent[1]) ELSE None]

\* new_request leaving the Authorization header out
new_request_anonymous(method, url) ==
    [method |-> method,
     url |-> url,
     auth |-> NoAuth,
     ua |-> IF user_agent # None THEN Some(user_agent[1]) ELSE None]

\* Client::new_request: Authorization: Bearer when a token is held,
\* User-Agent when one is configured
new_request(method, url) ==
    [method |-> method,
     url |-> url,
     auth |-> IF token # None THEN Bearer(token[1]) ELSE NoAuth,
     ua |-> IF user_agent # None THEN Some(user_agent[1]) ELSE None]

\* a request on the wire, tagged with the step of the client that sent it
Sent(op, req) ==
    [op |-> op, method |-> req.method, url |-> req.url, auth |-> req.auth,
     ua |-> req.ua]

----------------------------------------------------------------------------
(* Client::login *)

NoOut == [op |-> "none", resp |-> None, reqs |-> <<>>, value |-> "none", repos |-> <<>>]

NoLogin ==
    [scopes |-> <<>>, presp |-> None, tresp |-> None, chal |-> None,
     reqs |-> <<>>, result |-> "none"]

\* hyper::Uri::from_str as login and the read operations use it: the empty
\* string, an absolute form with an empty authority, and a text with '/' or
\* '?' but no "://" that does not start with '/' are errors
UriFromStr(s) ==
    IF s = <<>> THEN FALSE
    ELSE IF s = <<"*">> \/ s[1] = "/" THEN TRUE
    ELSE IF Contains(s, S_sep)
    THEN LET rest == Drop(s, IndexOf(s, S_sep) + 2)
         IN rest # <<>> /\ rest[1] \notin {"/", "?", "#"}
    ELSE ~(Contains(s, <<"/">>) \/ Contains(s, <<"?">>))

\* hyper's Client::request as line 135 calls it: a URI without scheme and
\* authority makes the returned future fail ("invalid URI for Client
\* Request") and nothing is sent
client_accepts(s) == Contains(s, S_sep)

\* the type of the value that login converts into its Error: a message
\* (ok_or("..")?, "..".into()), or the error of the call under try! or ?
error_kind(result) ==
    IF result \in {"Err(missing header)", "Err(multiple headers)",
                   "Err(unexpected status)", "Err(unsupported key)"}
    THEN "Msg"
    ELSE IF result = "Err(FromUtf8Error)" THEN "FromUtf8Error"
    ELSE IF result = "Err(UriError)" THEN "UriError"
    ELSE IF result \in {"Err(hyper)", "Err(hyper::Error::Status)"} THEN "hyper::Error"
    ELSE IF result = "Err(serde_json)" THEN "serde_json::Error"
    ELSE "none"

\* the headers and the status of the probe response (lines 95-104):
\* "challenge" when login goes on to read the challenge
\* the probe read without the match on the status
probe_outcome_any_status(resp) ==
    IF resp.kind = "transport" THEN "Err(hyper)"
    ELSE IF Len(resp.www) = 0 THEN "Err(missing header)"
    ELSE IF Len(resp.www) > 1 THEN "Err(multiple headers)"
    ELSE IF ~resp.www[1].utf8 THEN "Err(FromUtf8Error)"
    ELSE "challenge"

probe_outcome(resp) ==
    IF resp.kind = "transport" THEN "Err(hyper)"
    ELSE IF Len(resp.www) = 0 THEN "Err(missing header)"
    ELSE IF Len(resp.www) > 1 THEN "Err(multiple headers)"
    ELSE IF resp.status = 200 THEN "Ok"
    ELSE IF resp.status # 401 THEN "Err(unexpected status)"
    ELSE IF ~resp.www[1].utf8 THEN "Err(FromUtf8Error)"
    ELSE "challenge"

\* the loop over the items of the challenge (lines 108-116), from the values
\* auth_ep and service have before an item
RECURSIVE parse_items(_, _, _)
parse_items(items, auth_ep, service) ==
    IF items = <<>>
    THEN [err |-> FALSE, auth_ep |-> auth_ep, service |-> service]
    ELSE LET kv == split(Head(items), "=")
         IN IF kv[1] = S_realm /\ Len(kv) >= 2
            THEN parse_items(Tail(items), trim_matches(kv[2], Quote), service)
            ELSE IF kv[1] = S_service /\ Len(kv) >= 2
            THEN parse_items(Tail(items), auth_ep, Some(trim_matches(kv[2], Quote)))
            ELSE IF kv[1] = S_scope
            THEN parse_items(Tail(items), auth_ep, service)
            ELSE [err |-> TRUE, auth_ep |-> auth_ep, service |-> service]

\* the loop started from the registry's own address in place of ""
parse_challenge_default(chal) ==
    parse_items(split(trim_left_matches(chal, S_Bearer), ","), BaseUrl, None)

\* lines 106-116: auth_ep = "", service = None, then the loop
parse_challenge(chal) ==
    parse_items(split(trim_left_matches(chal, S_Bearer), ","), <<>>, None)

RECURSIVE append_scopes(_, _)
append_scopes(auth_ep, scopes) ==
    IF scopes = <<>> THEN auth_ep
    ELSE append_scopes(auth_ep \o S_ascope \o Head(scopes), Tail(scopes))

\* lines 118-123: the text of the token endpoint
token_endpoint(auth_ep, service, scopes) ==
    append_scopes(IF service # None THEN auth_ep \o S_qservice \o service[1]
                  ELSE auth_ep,
                  scopes)

\* lines 127-134: the token request, with Basic credentials when configured
auth_request(auth_url) ==
    [method |-> "GET",
     url |-> auth_url,
     auth |-> IF credentials # None
              THEN Basic(credentials[1][1], credentials[1][2])
              ELSE NoAuth,
     ua |-> None]

\* serde_json::from_slice::<TokenAuth>: the token of a JSON body that has
\* one, None for a body that is no JSON or has no token
deserialize_token(body) ==
    IF body.enc = "json" THEN body.token ELSE None

\* lines 135-158: what the token response makes of the login
token_outcome(resp) ==
    IF resp.kind = "transport" THEN "Err(hyper)"
    ELSE IF resp.status # 200 THEN "Err(hyper::Error::Status)"
    ELSE IF resp.body.enc = "notutf8" THEN "panic"
    ELSE IF deserialize_token(resp.body) = None THEN "Err(serde_json)"
    ELSE "Ok"

\* line 159 keeping a token that is already held
stored_token_keeps(resp) ==
    IF token # None THEN token ELSE Some(deserialize_token(resp.body)[1])

\* line 159: the token login stores from a response it accepted
stored_token(resp) == Some(deserialize_token(resp.body)[1])

\* login dropping the held token before it probes
LoginCallClears(scopes) ==
    /\ pc = "idle"
    /\ login' = [NoLogin EXCEPT
                    !.scopes = scopes,
                    !.reqs = <<Sent("probe", new_request("GET", BaseUrl \o S_v2))>>,
                    !.result = "running"]
    /\ pc' = "probe"
    /\ lastOut' = NoOut
    /\ token' = None
    /\ UNCHANGED <<credentials, user_agent, calls, manifest, session>>

\* lines 87-93: login builds the probe with new_request and sends it
LoginCall(scopes) ==
    /\ pc = "idle"
    /\ login' = [NoLogin EXCEPT
                    !.scopes = scopes,
                    !.reqs = <<Sent("probe", new_request("GET", BaseUrl \o S_v2))>>,
                    !.result = "running"]
    /\ pc' = "probe"
    /\ lastOut' = NoOut
    /\ UNCHANGED <<credentials, user_agent, token, calls, manifest, session>>

\* lines 94-135: the probe response arrives; login returns, or parses the
\* challenge, builds the token endpoint and sends the token request
LoginProbeResponse(resp) ==
    /\ pc = "probe"
    /\ LET o == probe_outcome(resp)
           p == parse_challenge(resp.www[1].text)
           auth_ep == token_endpoint(p.auth_ep, p.service, login.scopes)
           seen == [login EXCEPT !.presp = Some(resp)]
           parsed == [seen EXCEPT
                         !.chal = Some([auth_ep |-> p.auth_ep, service |-> p.service])]
       IN IF o # "challenge"
          THEN /\ login' = [seen EXCEPT !.result = o]
               /\ pc' = "idle"
          ELSE IF p.err
          THEN /\ login' = [seen EXCEPT !.result = "Err(unsupported key)"]
               /\ pc' = "idle"
          ELSE IF ~UriFromStr(auth_ep)
          THEN /\ login' = [parsed EXCEPT !.result = "Err(UriError)"]
               /\ pc' = "idle"
          ELSE IF ~client_accepts(auth_ep)
          THEN /\ login' = [parsed EXCEPT !.result = "Err(hyper)"]
               /\ pc' = "idle"
          ELSE /\ login' = [parsed EXCEPT
                               !.reqs = Append(@, Sent("token", auth_request(auth_ep)))]
               /\ pc' = "token"
    /\ UNCHANGED <<credentials, user_agent, token, calls, lastOut, manifest, session>>

\* lines 135-160: the token response arrives; login stores the token of a
\* response it accepts and returns, or panics in unwrap()
LoginTokenResponse(resp) ==
    /\ pc = "token"
    /\ LET o == token_outcome(resp)
       IN /\ login' = [login EXCEPT !.tresp = Some(resp), !.result = o]
          /\ token' = IF o = "Ok" THEN stored_token(resp) ELSE token
          /\ pc' = IF o = "panic" THEN "panicked" ELSE "idle"
    /\ UNCHANGED <<credentials, user_agent, calls, lastOut, manifest, session>>

----------------------------------------------------------------------------
(* Client::is_v2_supported, Client::is_auth, Client::get_catalog *)

ApiVersion == "registry/2.0"

V2Responses ==
    { [kind |-> "transport", status |-> 0, api |-> None] }
        \cup [kind : {"http"}, status : {200, 401, 404},
              api : {None, Some(ApiVersion), Some("registry/1.0")}]

AuthResponses ==
    { [kind |-> "transport", status |-> 0] }
        \cup [kind : {"http"}, status : {200, 401, 404}]

CatalogBody(enc, repos) == [enc |-> enc, repositories |-> repos]

\* next: the pages the registry serves after this one; the response carries
\* a Link header with rel="next" exactly when next is not empty
CatalogResponses ==
    { [kind |-> "transport", status |-> 0, body |-> CatalogBody("notjson", None),
       next |-> <<>>] }
        \cup [kind : {"http"}, status : {200},
              body : { CatalogBody("notutf8", None), CatalogBody("notjson", None),
                       CatalogBody("json", None), CatalogBody("json", Some(<<>>)),
                       CatalogBody("json", Some(<<"a", "b">>)) },
              next : {<<>>}]
        \cup { [kind |-> "http", status |-> 200,
                body |-> CatalogBody("json", Some(<<"a", "b">>)),
                next |-> << <<"c">> >>] }
        \cup [kind : {"http"}, status : {401, 404},
              body : {CatalogBody("notjson", None)}, next : {<<>>}]

Limits == {None, Some(10)}

Remove(seq, i) == SubSeq(seq, 1, i - 1) \o SubSeq(seq, i + 1, Len(seq))

\* a read operation builds its request with new_request, sends it and
\* returns the future; at most n futures are pending at a time
CallWithin(n, op, url) ==
    /\ pc = "idle"
    /\ Len(calls) < n
    /\ calls' = Append(calls, [op |-> op, reqs |-> <<Sent(op, new_request("GET", url))>>])
    /\ login' = NoLogin
    /\ UNCHANGED <<credentials, user_agent, token, pc, lastOut, manifest, session>>

Call(op, url) == CallWithin(MaxCalls, op, url)

\* a future that drops the held token when it is answered 401
ResolveForgets(i, resp, value, repos) ==
    /\ calls' = Remove(calls, i)
    /\ lastOut' = [op |-> calls[i].op, resp |-> Some(resp), reqs |-> calls[i].reqs,
                   value |-> value, repos |-> repos]
    /\ pc' = IF value = "panic" THEN "panicked" ELSE pc
    /\ login' = NoLogin
    /\ token' = IF resp.kind = "http" /\ resp.status = 401 THEN None ELSE token
    /\ UNCHANGED <<credentials, user_agent, manifest, session>>

\* the future of call i resolves to value (and repos, for a catalog)
Resolve(i, resp, value, repos) ==
    /\ calls' = Remove(calls, i)
    /\ lastOut' = [op |-> calls[i].op, resp |-> Some(resp), reqs |-> calls[i].reqs,
                   value |-> value, repos |-> repos]
    /\ pc' = IF value = "panic" THEN "panicked" ELSE pc
    /\ login' = NoLogin
    /\ UNCHANGED <<credentials, user_agent, token, manifest, session>>

\* lines 56-62
is_v2_supported ==
    Call("is_v2_supported", BaseUrl \o S_v2)

\* the version header deciding alone, whatever the status
v2_value_any_status(resp) ==
    IF resp.kind = "transport" THEN "Err(hyper)"
    ELSE IF resp.api = Some(ApiVersion) THEN "Ok(true)" ELSE "Ok(false)"

\* lines 63-71
v2_value(resp) ==
    IF resp.kind = "transport" THEN "Err(hyper)"
    ELSE IF resp.status \in {200, 401} /\ resp.api # None
    THEN IF resp.api[1] = ApiVersion THEN "Ok(true)" ELSE "Ok(false)"
    ELSE "Ok(false)"

IsV2SupportedResponse(i, resp) ==
    /\ pc = "idle"
    /\ i \in 1..Len(calls)
    /\ calls[i].op = "is_v2_supported"
    /\ Resolve(i, resp, v2_value(resp), <<>>)

\* lines 75-78
is_auth ==
    Call("is_auth", BaseUrl \o S_v2)

\* lines 79-83
auth_value(resp) ==
    IF resp.kind = "transport" THEN "Err(hyper)"
    ELSE IF resp.status = 200 THEN "Ok(true)"
    ELSE "Ok(false)"

\* is_auth sending its request again when it is answered 401
IsAuthResponseRetries(i, resp) ==
    /\ pc = "idle"
    /\ i \in 1..Len(calls)
    /\ calls[i].op = "is_auth"
    /\ IF resp.kind = "http" /\ resp.status = 401
       THEN /\ calls' = [calls EXCEPT ![i].reqs = Append(@, @[1])]
            /\ login' = NoLogin
            /\ UNCHANGED <<credentials, user_agent, token, pc, lastOut, manifest, session>>
       ELSE Resolve(i, resp, auth_value(resp), <<>>)

IsAuthResponse(i, resp) ==
    /\ pc = "idle"
    /\ i \in 1..Len(calls)
    /\ calls[i].op = "is_auth"
    /\ Resolve(i, resp, auth_value(resp), <<>>)

\* lines 164-170
catalog_url(limit) ==
    IF limit # None THEN BaseUrl \o S_catalog \o S_qn \o DecStr(limit[1])
    ELSE BaseUrl \o S_catalog

\* lines 163-172
get_catalog(limit) == Call("get_catalog", catalog_url(limit))

\* lines 173-193
catalog_value(resp) ==
    IF resp.kind = "transport" THEN "Err(hyper)"
    ELSE IF resp.status # 200 THEN "Err(hyper::Error::Status)"
    ELSE IF resp.body.enc = "notutf8" THEN "panic"
    ELSE IF resp.body.enc # "json" \/ resp.body.repositories = None
    THEN "Err(hyper::Error::Status)"
    ELSE "Ok(Catalog)"

GetCatalogResponse(i, resp) ==
    /\ pc = "idle"
    /\ i \in 1..Len(calls)
    /\ calls[i].op = "get_catalog"
    /\ Resolve(i, resp, catalog_value(resp),
               IF catalog_value(resp) = "Ok(Catalog)" THEN resp.body.repositories[1]
               ELSE <<>>)

----------------------------------------------------------------------------
(* Manifest resolver: get_manifest (mod manifest, declared at line 16) and
   the error envelope Errors / ApiError (lines 213-223) *)

S_manifests == <<"/", "m", "a", "n", "i", "f", "e", "s", "t", "s", "/">>
Repo == <<"i">>
References == { <<"t">>, <<"d">> }

\* Digest {algorithm, hex}
Digest(alg, hex) == [algorithm |-> alg, hex |-> hex]

to_lower(c) ==
    IF c = "A" THEN "a" ELSE IF c = "B" THEN "b" ELSE IF c = "C" THEN "c"
    ELSE IF c = "D" THEN "d" ELSE IF c = "E" THEN "e" ELSE IF c = "F" THEN "f"
    ELSE c

Lower(hex) == [k \in 1..Len(hex) |-> to_lower(hex[k])]

\* two digests are equal iff the algorithms are equal and the hex strings
\* are, whatever the case of their letters
digest_eq(a, b) == a.algorithm = b.algorithm /\ Lower(a.hex) = Lower(b.hex)

\* the raw bodies a manifest response can have, and their digests (a hash
\* is a function of the algorithm and the bytes; here a table of it)
ManifestBodies == {"m1", "m2"}

content_digest(alg, raw) ==
    Digest(alg,
           IF alg = "sha256"
           THEN (IF raw = "m1" THEN <<"a", "1">> ELSE <<"b", "2">>)
           ELSE (IF raw = "m1" THEN <<"c", "3">> ELSE <<"d", "4">>))

\* the values of Docker-Content-Digest: absent, or a digest
DigestHeaders ==
    { None }
        \cup { Some(Digest("sha256", h)) : h \in {<<"a", "1">>, <<"A", "1">>, <<"b", "2">>} }
        \cup { Some(Digest("sha512", h)) : h \in {<<"c", "3">>, <<"a", "1">>} }

\* an entry of the error envelope as the registry writes it: detail is
\* optional in the payload
Entry(code, message, detail) == [code |-> code, message |-> message, detail |-> detail]

E_with == Entry("UNAUTHORIZED", "authentication required", Some("d"))
E_without == Entry("UNAUTHORIZED", "authentication required", None)
E_other == Entry("MANIFEST_UNKNOWN", "manifest unknown", Some("d"))

ErrBody(enc, errors) == [enc |-> enc, errors |-> errors]

NoErrBody == ErrBody("notjson", None)

ErrBodies ==
    { NoErrBody, ErrBody("json", None), ErrBody("json", Some(<<E_with>>)),
      ErrBody("json", Some(<<E_without>>)), ErrBody("json", Some(<<E_other, E_with>>)) }

ManifestTransportError ==
    [kind |-> "transport", status |-> 0, digest |-> None, raw |-> "", err |-> NoErrBody]

ManifestResponses ==
    {ManifestTransportError}
        \cup [kind : {"http"}, status : {200}, digest : DigestHeaders,
              raw : ManifestBodies, err : {NoErrBody}]
        \cup [kind : {"http"}, status : {401, 404}, digest : {None},
              raw : {""}, err : ErrBodies]

\* serde's derived Deserialize for Errors {errors: Vec<ApiError>} and
\* ApiError {code: String, message: String, detail: String}: every field is
\* required, none is an Option and none has a default
deserialize_errors(body) ==
    IF body.enc # "json" \/ body.errors = None THEN None
    ELSE IF \E k \in 1..Len(body.errors[1]) : body.errors[1][k].detail = None THEN None
    ELSE Some([k \in 1..Len(body.errors[1]) |->
                 [code |-> body.errors[1][k].code,
                  message |-> body.errors[1][k].message,
                  detail |-> body.errors[1][k].detail[1]]])

NoManifest ==
    [pc |-> "idle", reqs |-> <<>>, resp |-> None, result |-> "none", item |-> None,
     errors |-> None]

Outcome(result, item, errors) == [result |-> result, item |-> item, errors |-> errors]

\* a digest that does not match taken as a warning: the manifest is returned
manifest_value_lenient(resp) ==
    IF resp.kind = "transport" THEN Outcome("Err(Transport)", None, None)
    ELSE IF resp.status = 200
    THEN LET alg == IF resp.digest # None THEN resp.digest[1].algorithm ELSE "sha256"
             computed == content_digest(alg, resp.raw)
         IN Outcome("Ok", Some([digest |-> computed, raw |-> resp.raw]), None)
    ELSE IF deserialize_errors(resp.err) # None
    THEN Outcome("Err(Api)", None, deserialize_errors(resp.err))
    ELSE Outcome("Err(UnexpectedStatus)", None, None)

\* what get_manifest resolves to on a response: on 200 the digest of the
\* raw body, computed with the algorithm of Docker-Content-Digest (sha256
\* without the header), must equal the header's; a non-2xx with an error
\* envelope that parses is Api(Errors), without one UnexpectedStatus
manifest_value(resp) ==
    IF resp.kind = "transport" THEN Outcome("Err(Transport)", None, None)
    ELSE IF resp.status = 200
    THEN LET alg == IF resp.digest # None THEN resp.digest[1].algorithm ELSE "sha256"
             computed == content_digest(alg, resp.raw)
         IN IF resp.digest # None /\ ~digest_eq(computed, resp.digest[1])
            THEN Outcome("Err(DigestMismatch)", None, None)
            ELSE Outcome("Ok", Some([digest |-> computed, raw |-> resp.raw]), None)
    ELSE IF deserialize_errors(resp.err) # None
    THEN Outcome("Err(Api)", None, deserialize_errors(resp.err))
    ELSE Outcome("Err(UnexpectedStatus)", None, None)

\* GET /v2/<repo>/manifests/<reference>, signed by new_request
get_manifest(repo, reference) ==
    /\ pc = "idle"
    /\ manifest.pc # "sent"
    /\ manifest' = [NoManifest EXCEPT
                      !.pc = "sent",
                      !.reqs = <<Sent("get_manifest",
                                      new_request("GET", BaseUrl \o S_v2 \o repo
                                                            \o S_manifests \o reference))>>]
    /\ UNCHANGED <<credentials, user_agent, token, pc, login, calls, lastOut, session>>

GetManifestResponse(resp) ==
    /\ pc = "idle"
    /\ manifest.pc = "sent"
    /\ LET o == manifest_value(resp)
       IN manifest' = [manifest EXCEPT
                         !.pc = "done", !.resp = Some(resp), !.result = o.result,
                         !.item = o.item, !.errors = o.errors]
    /\ UNCHANGED <<credentials, user_agent, token, pc, login, calls, lastOut, session>>

NextManifest ==
    \/ \E reference \in References : get_manifest(Repo, reference)
    \/ \E resp \in ManifestResponses : GetManifestResponse(resp)

----------------------------------------------------------------------------
(* Blob upload session *)

\* no upload has been started
NoSession ==
    [pc |-> "none", location |-> <<>>, rangeSent |-> 0, chunk |-> 0, reqs |-> <<>>,
     resp |-> None, result |-> "none", confirmed |-> 0]

Loc1 == BaseUrl \o <<"/", "u", "1">>
Loc2 == BaseUrl \o <<"/", "u", "2">>
Locations == {Loc1, Loc2}

\* the session startBlobUpload returns: nothing sent, nothing confirmed
StartedSession == [NoSession EXCEPT !.pc = "open", !.location = Loc1]

ChunkResp(kind, status, range, location) ==
    [kind |-> kind, status |-> status, range |-> range, location |-> location]

\* the answers to the PATCH of sess: a 202 whose Range confirms the bytes
\* the registry holds, those it held before and any part of the chunk, with
\* the Location to use next; a status outside 2xx; no answer
ChunkResponses(sess) ==
    { ChunkResp("http", 202, k, l) :
        k \in sess.rangeSent..(sess.rangeSent + sess.chunk), l \in Locations }
        \cup { ChunkResp("http", st, 0, <<>>) : st \in {404, 500} }
        \cup { ChunkResp("transport", 0, 0, <<>>) }

chunk_result(resp) ==
    IF resp.kind = "transport" THEN "Err(Transport)"
    ELSE IF resp.status = 202 THEN "Ok"
    ELSE "Err(ChunkUploadFailed)"

\* rangeSent advanced by what was sent, not by what was confirmed
range_after_local(sess, resp) ==
    IF chunk_result(resp) = "Ok" THEN sess.rangeSent + sess.chunk ELSE sess.rangeSent

\* rangeSent after the answer: the offset the Range header confirms on a
\* 202, unchanged on a failure
range_after(sess, resp) ==
    IF chunk_result(resp) = "Ok" THEN resp.range ELSE sess.rangeSent

\* PATCH <session.location> with Content-Range
\* <rangeSent>-<rangeSent+len(bytes)-1>, signed by new_request
uploadChunk(len) ==
    /\ pc = "idle"
    /\ session.pc = "open"
    /\ session.rangeSent + len <= MaxBlob
    /\ session' = [session EXCEPT
                     !.pc = "patching", !.chunk = len, !.resp = None,
                     !.result = "running",
                     !.reqs = <<[req |-> Sent("uploadChunk",
                                             new_request("PATCH", session.location)),
                                first |-> session.rangeSent,
                                last |-> session.rangeSent + len - 1]>>]
    /\ UNCHANGED <<credentials, user_agent, token, pc, login, calls, lastOut, manifest>>

UploadChunkResponse(resp) ==
    /\ pc = "idle"
    /\ session.pc = "patching"
    /\ session' = [session EXCEPT
                     !.pc = "open", !.resp = Some(resp), !.result = chunk_result(resp),
                     !.rangeSent = range_after(session, resp),
                     !.location = IF chunk_result(resp) = "Ok" THEN resp.location ELSE @,
                     !.confirmed = IF resp.kind = "http" /\ resp.status = 202
                                   THEN resp.range ELSE @]
    /\ UNCHANGED <<credentials, user_agent, token, pc, login, calls, lastOut, manifest>>

InitUpload ==
    /\ credentials \in {None, Some(<<"user", "pw">>)}
    /\ user_agent \in {None, Some("custom-ua/1.0")}
    /\ token \in {None} \cup {Some(t) : t \in Tokens}
    /\ pc = "idle"
    /\ login = NoLogin
    /\ calls = <<>>
    /\ lastOut = NoOut
    /\ manifest = NoManifest
    /\ session = StartedSession

NextUpload ==
    \/ \E len \in 1..MaxChunk : uploadChunk(len)
    \/ \E resp \in ChunkResponses(session) : UploadChunkResponse(resp)

SpecUpload == InitUpload /\ [][NextUpload]_vars

----------------------------------------------------------------------------
(* The client and its callers *)

Init ==
    /\ credentials \in {None, Some(<<"user", "pw">>)}
    /\ user_agent \in {None, Some("custom-ua/1.0")}
    /\ token = None
    /\ pc = "idle"
    /\ login = NoLogin
    /\ calls = <<>>
    /\ lastOut = NoOut
    /\ manifest = NoManifest
    /\ session = NoSession

Next ==
    \/ \E scopes \in ScopeLists : LoginCall(scopes)
    \/ \E resp \in ProbeResponses : LoginProbeResponse(resp)
    \/ \E resp \in TokenResponses : LoginTokenResponse(resp)
    \/ is_v2_supported
    \/ \E i \in 1..MaxCalls, resp \in V2Responses : IsV2SupportedResponse(i, resp)
    \/ is_auth
    \/ \E i \in 1..MaxCalls, resp \in AuthResponses : IsAuthResponse(i, resp)
    \/ \E limit \in Limits : get_catalog(limit)
    \/ \E i \in 1..MaxCalls, resp \in CatalogResponses : GetCatalogResponse(i, resp)

Spec == Init /\ [][Next]_vars

----------------------------------------------------------------------------
(* A client that holds a token or none, its read operations called with up
   to MaxReads futures pending together, and no login *)

InitReads ==
    /\ credentials \in {None, Some(<<"user", "pw">>)}
    /\ user_agent \in {None, Some("custom-ua/1.0")}
    /\ token \in {None} \cup {Some(t) : t \in Tokens}
    /\ pc = "idle"
    /\ login = NoLogin
    /\ calls = <<>>
    /\ lastOut = NoOut
    /\ manifest = NoManifest
    /\ session = NoSession

ReadsV2Supported == CallWithin(MaxReads, "is_v2_supported", BaseUrl \o S_v2)

ReadsIsAuth == CallWithin(MaxReads, "is_auth", BaseUrl \o S_v2)

ReadsGetCatalog(limit) == CallWithin(MaxReads, "get_catalog", catalog_url(limit))

NextReads ==
    \/ ReadsV2Supported
    \/ ReadsIsAuth
    \/ \E limit \in Limits : ReadsGetCatalog(limit)
    \/ \E i \in 1..MaxReads, resp \in V2Responses : IsV2SupportedResponse(i, resp)
    \/ \E i \in 1..MaxReads, resp \in AuthResponses : IsAuthResponse(i, resp)
    \/ \E i \in 1..MaxReads, resp \in CatalogResponses : GetCatalogResponse(i, resp)

SpecReads == InitReads /\ [][NextReads]_vars

\* the same client calling get_manifest
SpecManifest == InitReads /\ [][NextManifest]_vars

----------------------------------------------------------------------------
(* What the claims speak about *)

\* every request the state still shows: those of the login call, of the
\* unresolved futures and of the future resolved last
RECURSIVE CallReqs(_)
CallReqs(cs) ==
    IF cs = <<>> THEN {}
    ELSE { Head(cs).reqs[k] : k \in 1..Len(Head(cs).reqs) } \cup CallReqs(Tail(cs))

AllReqs ==
    { login.reqs[k] : k \in 1..Len(login.reqs) }
        \cup CallReqs(calls)
        \cup { lastOut.reqs[k] : k \in 1..Len(lastOut.reqs) }

ReadOps == {"is_v2_supported", "is_auth", "get_catalog"}

\* login has received an HTTP probe response with this status
ProbeStatusIs(l, st) ==
    l.presp # None /\ l.presp[1].kind = "http" /\ l.presp[1].status = st

\* login has received the challenge c, well formed, with a 401
Challenged(l, c) ==
    ProbeStatusIs(l, 401) /\ l.presp[1].www = <<Raw(FormatChallenge(c))>>

\* login has received a 200 token response whose JSON body has a token
TokenGranted(l) ==
    /\ l.tresp # None
    /\ l.tresp[1].kind = "http"
    /\ l.tresp[1].status = 200
    /\ l.tresp[1].body.enc = "json"
    /\ l.tresp[1].body.token # None

----------------------------------------------------------------------------
\* C1: when the probe of login is answered with status 200, with or without
\* a WWW-Authenticate header, login returns success, sends no token request
\* and leaves the token as it was.
C1_Probe200IsNoOpSuccess ==
    [][(pc = "probe" /\ ProbeStatusIs(login', 200))
        => /\ pc' = "idle"
           /\ login'.result = "Ok"
           /\ login'.reqs = login.reqs
           /\ token' = token]_vars

\* C2: after a 401 with a well-formed challenge, a 200 token response whose
\* JSON body has a token makes login succeed, and the token the client then
\* holds is exactly the token of that body.
C2_Case ==
    /\ pc = "idle"
    /\ \E c \in Challenges : Challenged(login, c)
    /\ TokenGranted(login)

C2_TokenOfBodyIsHeld ==
    C2_Case => (login.result = "Ok" /\ token = Some(login.tresp[1].body.token[1]))

\* a re-login that was granted a token other than the one the probe carried
C2_Witness ==
    /\ C2_Case
    /\ login.result = "Ok"
    /\ login.reqs[1].auth = Bearer("t1")
    /\ login.tresp[1].body.token = Some("t2")

\* C3: the client holds at most one token; a login whose token exchange
\* succeeds replaces it, in that one step, by the token of the response, and
\* no other step (a login failing at the probe, at the challenge, at the
\* token request or at the body; a login ended by a 200 probe) changes it.
C3_Exchanged == pc = "token" /\ login'.result = "Ok"

C3_TokenIsLastExchanged ==
    [][/\ Len(token') <= 1
       /\ C3_Exchanged => (TokenGranted(login') /\ token' = login'.tresp[1].body.token)
       /\ ~C3_Exchanged => token' = token]_vars

\* a login that failed at the token request while a token was held
C3_Witness ==
    /\ pc = "idle"
    /\ login.tresp # None
    /\ login.result = "Err(hyper::Error::Status)"
    /\ token = Some("t2")
    /\ login.reqs[1].auth = Bearer("t2")

\* C4: the token request goes to the realm of the challenge followed by a
\* query holding the service when the challenge has one, then one scope
\* parameter per scope login was given, in that order, repeated scopes
\* repeated; also when the challenge has no service.
UrlPath(u) ==
    IF Contains(u, <<"?">>) THEN SubSeq(u, 1, IndexOf(u, <<"?">>) - 1) ELSE u

UrlQuery(u) ==
    IF Contains(u, <<"?">>) THEN split(Drop(u, IndexOf(u, <<"?">>)), "&") ELSE <<>>

QueryOf(c, scopes) ==
    (IF c.service # None THEN <<S_service \o <<"=">> \o c.service[1]>> ELSE <<>>)
        \o [k \in 1..Len(scopes) |-> S_scope \o <<"=">> \o scopes[k]]

\* challenges whose realm and service hold no '?', '=' or ','
PlainChallenges ==
    { c \in Challenges : c.realm = R_plain /\ c.service \in {None, Some(Sv_plain)} }

C4_TokenUrlIsRealmAndQuery ==
    \A c \in PlainChallenges :
        (Challenged(login, c) /\ Len(login.reqs) = 2)
            => /\ UrlPath(login.reqs[2].url) = c.realm
               /\ UrlQuery(login.reqs[2].url) = QueryOf(c, login.scopes)

\* C5: the probe of every login, of a re-login with a token held too,
\* carries no Authorization header.
C5_ProbeIsAnonymous ==
    \A k \in 1..Len(login.reqs) :
        login.reqs[k].op = "probe" => login.reqs[k].auth = NoAuth

\* C6: the configured username and password go out, as Basic authorization,
\* on the token request of login when they are configured, and on no other
\* request: not on the probe, not on a request of a read operation.
C6_CredentialsOnlyOnTokenRequest ==
    \A r \in AllReqs :
        IF r.op = "token"
        THEN r.auth = IF credentials # None
                      THEN Basic(credentials[1][1], credentials[1][2])
                      ELSE NoAuth
        ELSE r.auth = NoAuth \/ r.auth[1] # "Basic"

\* credentials are configured, the token request of a login carried them,
\* and the request of a read operation called before the login is shown too
C6_Witness ==
    /\ credentials # None
    /\ pc = "token"
    /\ login.reqs[2].auth = Basic("user", "pw")
    /\ calls # <<>>

\* C7: the request a read operation sends carries Authorization: Bearer t
\* when the client holds the token t at the call, and no Authorization
\* header when it holds none.
C7_ReadRequestsCarryHeldToken ==
    [][Len(calls') > Len(calls)
        => LET c == calls'[Len(calls')]
           IN /\ c.op \in ReadOps
              /\ Len(c.reqs) = 1
              /\ c.reqs[1].auth = IF token = None THEN NoAuth ELSE Bearer(token[1])]_vars

\* a catalog request sent with the token a login stored
C7_Witness ==
    /\ token = Some("t2")
    /\ calls # <<>>
    /\ calls[1].op = "get_catalog"
    /\ calls[1].reqs[1].auth = Bearer("t2")

\* C8: every request carries a User-Agent header: the configured value, or
\* the default of the library when none is configured.
DefaultUserAgent == "docker_registry::USER_AGENT"

C8_EveryRequestHasUserAgent ==
    \A r \in AllReqs :
        r.ua = IF user_agent # None THEN Some(user_agent[1]) ELSE Some(DefaultUserAgent)

\* C9: a read operation answered with 401 sends nothing more (no probe, no
\* token request, no second copy of its request) and leaves the token; the
\* token changes only inside a login call.
C9_Answered401 ==
    /\ Len(calls') < Len(calls)
    /\ lastOut'.resp # None
    /\ lastOut'.resp[1].status = 401

C9_NoReauthenticationOn401 ==
    [][/\ \A k \in 1..Len(calls') : Len(calls'[k].reqs) = 1
       /\ C9_Answered401
            => /\ token' = token
               /\ pc' = "idle"
               /\ login'.reqs = <<>>
               /\ Len(lastOut'.reqs) = 1
               /\ \A k \in 1..Len(calls') : \E j \in 1..Len(calls) : calls'[k] = calls[j]
       /\ token' # token => pc = "token"]_vars

\* a catalog request that carried the token of a login was answered 401
C9_Witness ==
    /\ lastOut.op = "get_catalog"
    /\ lastOut.resp[1].status = 401
    /\ token = Some("t1")
    /\ lastOut.reqs = <<Sent("get_catalog", new_request("GET", BaseUrl \o S_catalog))>>
    /\ pc = "idle"

\* C10: from the header of a valid challenge, parsing recovers the realm and
\* the service as they stand between their quotes, '=' and ',' included.
\* (Of the scopes of the header the parsing loop keeps nothing.)
C10_ParseRecoversRealmAndService ==
    \A c \in Challenges :
        (pc \in {"idle", "token"} /\ Challenged(login, c))
            => /\ login.chal # None
               /\ login.chal[1].auth_ep = c.realm
               /\ login.chal[1].service = c.service

\* the value login returned is an error
IsErr(result) == result \notin {"none", "running", "Ok", "panic"}

\* C11: a key other than realm, service and scope next to a valid realm is
\* skipped: login goes on and sends the token request.
C11_UnknownKeyIsSkipped ==
    (pc \in {"idle", "token"}
        /\ ProbeStatusIs(login, 401)
        /\ login.presp[1].www = <<Raw(H_unknown)>>)
        => (Len(login.reqs) = 2 /\ login.reqs[2].op = "token")

\* C12: a challenge without a realm makes login return an error, send no
\* token request and leave the token as it was.
C12_NoRealm(l) ==
    /\ ProbeStatusIs(l, 401)
    /\ l.presp[1].www \in {<<Raw(H_norealm)>>, <<Raw(H_scopeonly)>>}

C13_Resolved ==
    /\ Len(calls') < Len(calls)
    /\ lastOut'.op = "is_v2_supported"
    /\ lastOut'.resp[1].kind = "http"

C13_V2SupportedIffStatusAndHeader ==
    [][C13_Resolved
        => /\ Len(lastOut'.reqs) = 1
           /\ lastOut'.reqs[1].method = "GET"
           /\ lastOut'.reqs[1].url = BaseUrl \o S_v2
           /\ lastOut'.value \in {"Ok(true)", "Ok(false)"}
           /\ lastOut'.value = "Ok(true)"
                <=> /\ lastOut'.resp[1].status \in {200, 401}
                    /\ lastOut'.resp[1].api = Some(ApiVersion)
           /\ token' = token]_vars

\* the header is right and the status is not: false, with a token held
C13_Witness ==
    /\ lastOut.op = "is_v2_supported"
    /\ lastOut.resp = Some([kind |-> "http", status |-> 404, api |-> Some(ApiVersion)])
    /\ lastOut.value = "Ok(false)"
    /\ token # None

\* the items of a sequence of pages, in page order
RECURSIVE Flatten(_)
Flatten(pages) ==
    IF pages = <<>> THEN <<>> ELSE Head(pages) \o Flatten(Tail(pages))

\* C14: a catalog served as N pages (all but the last with a next link) is
\* listed as the M items of all the pages in page order, after exactly N
\* requests.
C14_AllPagesListed ==
    (lastOut.op = "get_catalog" /\ lastOut.value = "Ok(Catalog)")
        => LET resp == lastOut.resp[1]
               pages == <<resp.body.repositories[1]>> \o resp.next
           IN /\ lastOut.repos = Flatten(pages)
              /\ Len(lastOut.reqs) = Len(pages)

\* the probe was answered with a status other than 200 and 401, or with a
\* 401 that has no WWW-Authenticate header or one that cannot be parsed
C18_Case(l) ==
    /\ l.presp # None
    /\ l.presp[1].kind = "http"
    /\ \/ l.presp[1].status \notin {200, 401}
       \/ /\ l.presp[1].status = 401
          /\ l.presp[1].www \in {<<>>, <<RawInvalid>>, <<Raw(H_unknown)>>}

C19_Failing(l) ==
    /\ l.tresp # None
    /\ l.tresp[1].kind = "http"
    /\ \/ l.tresp[1].status # 200
       \/ l.tresp[1].body.enc # "json"
       \/ l.tresp[1].body.token = None

\* C19: every failing token response makes login return an error value and
\* not abort (a non-200 status, a 200 whose body is not JSON, not UTF-8
\* included, or has no token), and the token is unchanged.
C19_FailingExchangeReturnsError ==
    [][(pc = "token" /\ C19_Failing(login'))
        => /\ pc' = "idle"
           /\ IsErr(login'.result)
           /\ token' = token]_vars

\* the Authorization header that goes with the token held
HeaderOf(tok) == IF tok = None THEN NoAuth ELSE Bearer(tok[1])

\* the requests of the calls in flight and of the call that resolved last
C20_Requests ==
    CallReqs(calls) \cup { lastOut.reqs[k] : k \in 1..Len(lastOut.reqs) }

\* C20: is_v2_supported, is_auth and get_catalog never write the token: with
\* these calls interleaved in any order and no login between them, the token
\* stays what it was and every request carries the one Authorization header
\* that goes with it.
C20_ReadsLeaveTokenAndHeader ==
    [][/\ token' = token
       /\ \A r \in C20_Requests' : r.auth = HeaderOf(token)]_vars

\* two different calls in flight, a third resolved while they were
C20_Witness ==
    /\ Len(calls) = 2
    /\ calls[1].op = "get_catalog"
    /\ calls[2].op = "is_auth"
    /\ lastOut.op = "is_v2_supported"
    /\ lastOut.resp[1].kind = "http"
    /\ lastOut.resp[1].status = 401
    /\ token = Some("t1")

\* get_manifest was answered with a status outside 2xx and a body that is
\* an error envelope
C15_Envelope ==
    /\ manifest.pc = "done"
    /\ manifest.resp[1].kind = "http"
    /\ manifest.resp[1].status \in {401, 404}
    /\ manifest.resp[1].err.enc = "json"
    /\ manifest.resp[1].err.errors # None

\* C15: a non-2xx response to get_manifest whose body is an error envelope
\* is an Api error whose entries carry the code and the message of the
\* body's entries, whether the entries have a detail field or not.
C15_EnvelopeIsApiError ==
    C15_Envelope
        => LET sent == manifest.resp[1].err.errors[1]
           IN /\ manifest.result = "Err(Api)"
              /\ manifest.errors # None
              /\ Len(manifest.errors[1]) = Len(sent)
              /\ \A k \in 1..Len(sent) :
                    /\ manifest.errors[1][k].code = sent[k].code
                    /\ manifest.errors[1][k].message = sent[k].message

\* the digest of the raw body, computed with the algorithm the header
\* names, is the digest of the header
C16_Equal(resp) ==
    LET h == resp.digest[1]
        c == content_digest(h.algorithm, resp.raw)
    IN c.algorithm = h.algorithm /\ Lower(c.hex) = Lower(h.hex)

\* C16: on a 200 with a Docker-Content-Digest header, get_manifest returns
\* the manifest if and only if the digest computed over the raw body equals
\* the header; otherwise it fails with DigestMismatch and returns no
\* manifest.
C16_ManifestIffDigestMatches ==
    (manifest.pc = "done"
        /\ manifest.resp[1].kind = "http"
        /\ manifest.resp[1].status = 200
        /\ manifest.resp[1].digest # None)
        => IF C16_Equal(manifest.resp[1])
           THEN /\ manifest.result = "Ok"
                /\ manifest.item # None
                /\ manifest.item[1].raw = manifest.resp[1].raw
           ELSE /\ manifest.result = "Err(DigestMismatch)"
                /\ manifest.item = None

\* the header names the sha256 of the other body: no manifest
C16_Witness ==
    /\ manifest.pc = "done"
    /\ manifest.resp[1].kind = "http"
    /\ manifest.resp[1].status = 200
    /\ manifest.resp[1].raw = "m1"
    /\ manifest.resp[1].digest = Some(Digest("sha256", <<"b", "2">>))
    /\ manifest.result = "Err(DigestMismatch)"
    /\ manifest.item = None

\* C17: over the uploadChunk calls on a session, rangeSent never decreases
\* and is the last offset the registry confirmed: a 202 that confirms K
\* sets it to K, whatever was sent, and the next chunk starts there; a
\* status outside 2xx leaves it as it was.
C17_RangeSentIsConfirmedOffset ==
    [][/\ session'.rangeSent >= session.rangeSent
       /\ session'.rangeSent = session'.confirmed
       /\ (session.pc = "patching" /\ session'.resp[1].kind = "http")
            => IF session'.resp[1].status = 202
               THEN session'.rangeSent = session'.resp[1].range
               ELSE session'.rangeSent = session.rangeSent
       /\ session'.pc = "patching"
            => session'.reqs[1].first = session.rangeSent]_vars

\* a chunk of two bytes sent from offset 0, of which the registry confirmed
\* the first: K = 1 of L = 2
C17_Witness ==
    /\ session.pc = "open"
    /\ session.chunk = 2
    /\ session.reqs[1].first = 0
    /\ session.resp # None
    /\ session.resp[1].kind = "http"
    /\ session.resp[1].status = 202
    /\ session.resp[1].range = 1
    /\ session.rangeSent = 1

====
